---- MODULE Spec2Model ----
(***************************************************************************)
(* Model of src/vs/workbench/api/common/extHostWebviewView.ts:             *)
(* ExtHostWebviewViews (the extension-host side registry of webview view   *)
(* providers and resolved views) and ExtHostWebviewView (the per-view      *)
(* wrapper handed to the provider).                                        *)
(***************************************************************************)
EXTENDS Integers, Sequences, FiniteSets, TLC

\* ---------------------------------------------------------------- inputs
ViewTypes == {"v1", "v2"}
Handles == {"h1", "h2"}
\* <<extension, provider>>: each extension registers its own provider object
Registrants == {<<"e1", "p1">>, <<"e2", "p2">>}
Undefined == "undefined"
Titles == {Undefined, "a"}
WebviewOptions == {Undefined}
\* <<state, cancellation>>: each request carries its own state and token
Requests == {<<"s1", "t1">>, <<"s2", "t2">>}

\* ---------------------------------------------------------------- bounds
\* the number of calls a behaviour makes
MaxCalls == 5

VARIABLES
    viewProviders,  \* ExtHostWebviewViews._viewProviders: viewType -> {provider, extension}
    webviewViews,   \* ExtHostWebviewViews._webviewViews: handle -> index into views
    views,          \* every ExtHostWebviewView constructed so far, in construction order
    webviews,       \* every call of ExtHostWebviews.createNewWebview so far
    disposables,    \* every extHostTypes.Disposable returned by registerWebviewViewProvider
    sent,           \* the calls made on the MainThreadWebviews proxy, in order
    resolveCalls,   \* the $resolveWebviewView calls that passed the guard, with their promise
    invocations,    \* the calls of provider.resolveWebviewView made so far
    lastCall,       \* the most recent call into this file and how it ended
    fired,          \* the Emitter.fire() calls made during the most recent call
    notified,       \* the events listeners received during the most recent call,
                    \* each with what a listener re-entering this file finds
    nCalls          \* the number of calls made so far

vars == <<viewProviders, webviewViews, views, webviews, disposables, sent,
          resolveCalls, invocations, lastCall, fired, notified, nCalls>>

\* ---------------------------------------------------------------- Map<K, V>
EmptyMap == << >>

MapHas(m, k) == k \in DOMAIN m

MapSet(m, k, v) == [x \in (DOMAIN m) \cup {k} |-> IF x = k THEN v ELSE m[x]]

MapDelete(m, k) == [x \in (DOMAIN m) \ {k} |-> m[x]]

\* ---------------------------------------------------------------- errors
NoError == ""

AlreadyRegistered(viewType) == "View provider for '" \o viewType \o "' already registered"

NoViewProvider(viewType) == "No view provider found for '" \o viewType \o "'"

NoWebviewFound == "No webview found"

WebviewIsDisposed == "Webview is disposed"

\* whatever the provider's callback throws
ProviderError == "provider error"

\* How a call ended: the call, its arguments, the error it threw (or rejected
\* with) and the value it returned.
Threw(op, args, error) ==
    [op |-> op, args |-> args, thrown |-> error, returned |-> Undefined]

Returned(op, args, value) ==
    [op |-> op, args |-> args, thrown |-> NoError, returned |-> value]

\* ---------------------------------------------------------------- proxy
Message(method, key, value) == [method |-> method, key |-> key, value |-> value]

ProxyRegisterWebviewViewProvider(viewType, webviewOptions) ==
    Message("$registerWebviewViewProvider", viewType, webviewOptions)

ProxyUnregisterWebviewViewProvider(viewType) ==
    Message("$unregisterWebviewViewProvider", viewType, Undefined)

ProxySetWebviewViewTitle(handle, value) ==
    Message("$setWebviewViewTitle", handle, value)

\* ---------------------------------------------------------------- ExtHostWebviewView
\* constructor: #isDisposed = false, #title undefined, #isVisible as given.
\* emittersDisposed tells that super.dispose() has disposed the two emitters
\* registered with this._register (lines 54, 57).
\* Three fields record this object's history: nDidDispose counts its
\* #onDidDispose.fire() calls, titlesSent lists the values it has passed to
\* $setWebviewViewTitle, replaced tells that a later $resolveWebviewView has
\* overwritten its entry in _webviewViews.
ExtHostWebviewView(handle, viewType, webview, isVisible) ==
    [handle |-> handle, viewType |-> viewType, webview |-> webview,
     isDisposed |-> FALSE, isVisible |-> isVisible, title |-> Undefined,
     emittersDisposed |-> FALSE,
     nDidDispose |-> 0, titlesSent |-> << >>, replaced |-> FALSE]

Fire(w, event) == [view |-> w, event |-> event]

\* Emitter.fire() as the listeners see it: a disposed emitter has no
\* listeners left, and its fire() reaches no one.
EmitterFire(vs, w, event) ==
    IF vs[w].emittersDisposed THEN << >> ELSE << Fire(w, event) >>

\* Mutant: dispose() without its #isDisposed early return.
dispose_NoEarlyReturn(vs, w) ==
    [views |-> [vs EXCEPT ![w].isDisposed = TRUE, ![w].nDidDispose = @ + 1,
                          ![w].emittersDisposed = TRUE],
     fired |-> << Fire(w, "onDidDispose") >>,
     notified |-> EmitterFire(vs, w, "onDidDispose")]

\* Mutant: dispose() without super.dispose(), which leaves the emitters alive.
dispose_KeepsEmitters(vs, w) ==
    IF vs[w].isDisposed
    THEN [views |-> vs, fired |-> << >>, notified |-> << >>]
    ELSE [views |-> [vs EXCEPT ![w].isDisposed = TRUE,
                               ![w].nDidDispose = @ + 1],
          fired |-> << Fire(w, "onDidDispose") >>,
          notified |-> EmitterFire(vs, w, "onDidDispose")]

\* dispose(): the views after the call, the events it fired and the ones
\* that reached listeners.
dispose(vs, w) ==
    IF vs[w].isDisposed
    THEN [views |-> vs, fired |-> << >>, notified |-> << >>]
    ELSE [views |-> [vs EXCEPT ![w].isDisposed = TRUE,
                               ![w].nDidDispose = @ + 1,
                               ![w].emittersDisposed = TRUE],
          fired |-> << Fire(w, "onDidDispose") >>,
          notified |-> EmitterFire(vs, w, "onDidDispose")]

\* Mutant: _setVisible without its early return on an unchanged value.
setVisible_AlwaysFire(vs, w, visible) ==
    [views |-> [vs EXCEPT ![w].isVisible = visible],
     fired |-> << Fire(w, "onDidChangeVisibility") >>,
     notified |-> EmitterFire(vs, w, "onDidChangeVisibility")]

\* _setVisible(visible): the views after the call and the events it fired.
setVisible(vs, w, visible) ==
    IF visible = vs[w].isVisible
    THEN [views |-> vs, fired |-> << >>, notified |-> << >>]
    ELSE [views |-> [vs EXCEPT ![w].isVisible = visible],
          fired |-> << Fire(w, "onDidChangeVisibility") >>,
          notified |-> EmitterFire(vs, w, "onDidChangeVisibility")]

\* Mutant: assertNotDisposed that never throws.
assertNotDisposed_Never(vs, w) == FALSE

\* assertNotDisposed(): TRUE when it throws.
assertNotDisposed(vs, w) == vs[w].isDisposed

\* ---------------------------------------------------------------- ExtHostWebviewViews
\* What the listeners notified of events find when they call back into this
\* file while the event is being fired, map and vs being _webviewViews and
\* the views at that moment: lookup is what getWebviewView(handle) throws for
\* the wrapper's handle, title what the wrapper's title accessors throw.
ListenersObserve(events, map, vs) ==
    [i \in 1..Len(events) |->
        [view |-> events[i].view,
         event |-> events[i].event,
         lookup |-> IF MapHas(map, vs[events[i].view].handle)
                    THEN NoError ELSE NoWebviewFound,
         title |-> IF vs[events[i].view].isDisposed
                   THEN WebviewIsDisposed ELSE NoError]]

\* getWebviewView(handle): the view's index, or 0 when it throws 'No webview found'.
getWebviewView(handle) ==
    IF MapHas(webviewViews, handle) THEN webviewViews[handle] ELSE 0

\* Mutant: registerWebviewViewProvider without its has(viewType) guard.
registerWebviewViewProvider_NoGuard(extension, viewType, provider, webviewOptions) ==
    /\ viewProviders' = MapSet(viewProviders, viewType,
                               [provider |-> provider, extension |-> extension])
    /\ sent' = Append(sent, ProxyRegisterWebviewViewProvider(viewType, webviewOptions))
    /\ disposables' = Append(disposables,
           [viewType |-> viewType, callOnDispose |-> TRUE,
            installed |-> [provider |-> provider, extension |-> extension]])
    /\ lastCall' = Returned("registerWebviewViewProvider",
                            <<extension, viewType, provider, webviewOptions>>,
                            Undefined)
    /\ fired' = << >>
    /\ notified' = << >>
    /\ UNCHANGED <<webviewViews, views, webviews, resolveCalls, invocations>>

\* registerWebviewViewProvider(extension, viewType, provider, webviewOptions)
registerWebviewViewProvider(extension, viewType, provider, webviewOptions) ==
    IF MapHas(viewProviders, viewType)
    THEN /\ lastCall' = Threw("registerWebviewViewProvider",
                              <<extension, viewType, provider, webviewOptions>>,
                              AlreadyRegistered(viewType))
         /\ fired' = << >>
         /\ notified' = << >>
         /\ UNCHANGED <<viewProviders, webviewViews, views, webviews, disposables,
                        sent, resolveCalls, invocations>>
    ELSE /\ viewProviders' = MapSet(viewProviders, viewType,
                                    [provider |-> provider, extension |-> extension])
         /\ sent' = Append(sent, ProxyRegisterWebviewViewProvider(viewType, webviewOptions))
         /\ disposables' = Append(disposables,
                [viewType |-> viewType, callOnDispose |-> TRUE,
                 installed |-> [provider |-> provider, extension |-> extension]])
         /\ lastCall' = Returned("registerWebviewViewProvider",
                                 <<extension, viewType, provider, webviewOptions>>,
                                 Undefined)
         /\ fired' = << >>
         /\ notified' = << >>
         /\ UNCHANGED <<webviewViews, views, webviews, resolveCalls, invocations>>

\* Mutant: the callback without its $unregisterWebviewViewProvider call.
UnregisterCallback_NoSend(viewType) ==
    /\ viewProviders' = MapDelete(viewProviders, viewType)
    /\ sent' = sent
    /\ fired' = << >>
    /\ notified' = << >>
    /\ UNCHANGED <<webviewViews, views, webviews, resolveCalls, invocations>>

\* Mutant: the callback emptying the provider map
\* (this._viewProviders.clear()).
UnregisterCallback_Clear(viewType) ==
    /\ viewProviders' = EmptyMap
    /\ sent' = Append(sent, ProxyUnregisterWebviewViewProvider(viewType))
    /\ fired' = << >>
    /\ notified' = << >>
    /\ UNCHANGED <<webviewViews, views, webviews, resolveCalls, invocations>>

\* Mutant: the callback also forgetting the views resolved for the view-type.
UnregisterCallback_ForgetsViews(viewType) ==
    /\ viewProviders' = MapDelete(viewProviders, viewType)
    /\ sent' = Append(sent, ProxyUnregisterWebviewViewProvider(viewType))
    /\ webviewViews' = [h \in {k \in DOMAIN webviewViews :
                                    views[webviewViews[k]].viewType # viewType}
                          |-> webviewViews[h]]
    /\ fired' = << >>
    /\ notified' = << >>
    /\ UNCHANGED <<views, webviews, resolveCalls, invocations>>

\* The callback given to the extHostTypes.Disposable that
\* registerWebviewViewProvider returns: it deletes the entry of the view-type
\* and tells the main thread; nothing else in this file changes.
UnregisterCallback(viewType) ==
    /\ viewProviders' = MapDelete(viewProviders, viewType)
    /\ sent' = Append(sent, ProxyUnregisterWebviewViewProvider(viewType))
    /\ fired' = << >>
    /\ notified' = << >>
    /\ UNCHANGED <<webviewViews, views, webviews, resolveCalls, invocations>>

\* extHostTypes.Disposable.dispose(): runs its callback on the first call,
\* then forgets it; later calls do nothing.
DisposableDispose(d) ==
    /\ d \in 1..Len(disposables)
    /\ IF disposables[d].callOnDispose
       THEN /\ UnregisterCallback(disposables[d].viewType)
            /\ disposables' = [disposables EXCEPT ![d].callOnDispose = FALSE]
       ELSE /\ fired' = << >>
            /\ notified' = << >>
            /\ UNCHANGED <<viewProviders, sent, disposables, webviewViews, views,
                           webviews, resolveCalls, invocations>>
    /\ lastCall' = Returned("Disposable.dispose", <<d>>, Undefined)

\* Mutant: the provider called with CancellationToken.None instead of the
\* token $resolveWebviewView was given.
InvokeProvider_NoneToken(call, provider, revivedView, state, cancellation) ==
    Append(invocations,
           [call |-> call, provider |-> provider, webviewView |-> revivedView,
            context |-> [state |-> state], token |-> "CancellationToken.None",
            status |-> "running"])

\* this._webviewViews.set(webviewHandle, revivedView): the views, with the
\* one the new entry overwrites (if any) marked replaced, and the new one.
StoreView(webviewHandle, revivedView) ==
    Append(IF MapHas(webviewViews, webviewHandle)
           THEN [views EXCEPT ![webviewViews[webviewHandle]].replaced = TRUE]
           ELSE views,
           revivedView)

\* provider.resolveWebviewView(revivedView, { state }, cancellation)
InvokeProvider(call, provider, revivedView, state, cancellation) ==
    Append(invocations,
           [call |-> call, provider |-> provider, webviewView |-> revivedView,
            context |-> [state |-> state], token |-> cancellation,
            status |-> "running"])

\* Mutant: $resolveWebviewView creating and storing the view before it looks
\* the provider up.
RpcResolveWebviewView_LateGuard(webviewHandle, viewType, state, cancellation) ==
    /\ webviews' = Append(webviews,
           [handle |-> webviewHandle,
            extension |-> IF MapHas(viewProviders, viewType)
                          THEN viewProviders[viewType].extension ELSE Undefined])
    /\ views' = StoreView(webviewHandle,
                          ExtHostWebviewView(webviewHandle, viewType,
                                             Len(webviews) + 1, TRUE))
    /\ webviewViews' = MapSet(webviewViews, webviewHandle, Len(views) + 1)
    /\ fired' = << >>
    /\ notified' = << >>
    /\ UNCHANGED <<viewProviders, disposables, sent>>
    /\ IF ~MapHas(viewProviders, viewType)
       THEN /\ lastCall' = Threw("$resolveWebviewView",
                                 <<webviewHandle, viewType, state, cancellation>>,
                                 NoViewProvider(viewType))
            /\ UNCHANGED <<resolveCalls, invocations>>
       ELSE /\ resolveCalls' = Append(resolveCalls,
                   [webviewHandle |-> webviewHandle, viewType |-> viewType,
                    state |-> state, cancellation |-> cancellation,
                    webviewView |-> Len(views) + 1, promise |-> "pending"])
            /\ invocations' = Append(invocations,
                   [call |-> Len(resolveCalls) + 1,
                    provider |-> viewProviders[viewType].provider,
                    webviewView |-> Len(views) + 1, context |-> [state |-> state],
                    token |-> cancellation, status |-> "running"])
            /\ lastCall' = Returned("$resolveWebviewView",
                                    <<webviewHandle, viewType, state, cancellation>>,
                                    Undefined)

\* Mutant: $resolveWebviewView storing the view after the await, so that the
\* provider runs while the handle is not in the map yet.
RpcResolveWebviewView_StoreAfterAwait(webviewHandle, viewType, state, cancellation) ==
    IF ~MapHas(viewProviders, viewType)
    THEN /\ lastCall' = Threw("$resolveWebviewView",
                              <<webviewHandle, viewType, state, cancellation>>,
                              NoViewProvider(viewType))
         /\ fired' = << >>
         /\ notified' = << >>
         /\ UNCHANGED <<viewProviders, webviewViews, views, webviews, disposables,
                        sent, resolveCalls, invocations>>
    ELSE /\ webviews' = Append(webviews, [handle |-> webviewHandle,
                                          extension |-> viewProviders[viewType].extension])
         /\ views' = Append(views, ExtHostWebviewView(webviewHandle, viewType,
                                                      Len(webviews) + 1, TRUE))
         /\ resolveCalls' = Append(resolveCalls,
                [webviewHandle |-> webviewHandle, viewType |-> viewType,
                 state |-> state, cancellation |-> cancellation,
                 webviewView |-> Len(views) + 1, promise |-> "pending"])
         /\ invocations' = Append(invocations,
                [call |-> Len(resolveCalls) + 1,
                 provider |-> viewProviders[viewType].provider,
                 webviewView |-> Len(views) + 1, context |-> [state |-> state],
                 token |-> cancellation, status |-> "running"])
         /\ lastCall' = Returned("$resolveWebviewView",
                                 <<webviewHandle, viewType, state, cancellation>>,
                                 Undefined)
         /\ fired' = << >>
         /\ notified' = << >>
         /\ UNCHANGED <<viewProviders, webviewViews, disposables, sent>>

\* $resolveWebviewView(webviewHandle, viewType, state, cancellation), up to
\* the await of the provider's callback. When the guard passes, the call is
\* recorded in resolveCalls with its promise pending; Settle completes it.
RpcResolveWebviewView(webviewHandle, viewType, state, cancellation) ==
    IF ~MapHas(viewProviders, viewType)
    THEN /\ lastCall' = Threw("$resolveWebviewView",
                              <<webviewHandle, viewType, state, cancellation>>,
                              NoViewProvider(viewType))
         /\ fired' = << >>
         /\ notified' = << >>
         /\ UNCHANGED <<viewProviders, webviewViews, views, webviews, disposables,
                        sent, resolveCalls, invocations>>
    ELSE LET entry == viewProviders[viewType]
             webview == Len(webviews) + 1
             revivedView == Len(views) + 1
             call == Len(resolveCalls) + 1
         IN /\ webviews' = Append(webviews, [handle |-> webviewHandle,
                                             extension |-> entry.extension])
            /\ views' = StoreView(webviewHandle,
                                  ExtHostWebviewView(webviewHandle, viewType,
                                                     webview, TRUE))
            /\ webviewViews' = MapSet(webviewViews, webviewHandle, revivedView)
            /\ resolveCalls' = Append(resolveCalls,
                   [webviewHandle |-> webviewHandle, viewType |-> viewType,
                    state |-> state, cancellation |-> cancellation,
                    webviewView |-> revivedView, promise |-> "pending"])
            /\ invocations' = InvokeProvider(call, entry.provider, revivedView,
                                             state, cancellation)
            /\ lastCall' = Returned("$resolveWebviewView",
                                    <<webviewHandle, viewType, state, cancellation>>,
                                    Undefined)
            /\ fired' = << >>
            /\ notified' = << >>
            /\ UNCHANGED <<viewProviders, disposables, sent>>

\* The continuation of $resolveWebviewView after the await: the promise the
\* provider returned settles, and the promise of $resolveWebviewView with it.
Settle(i, status, promise, outcome) ==
    /\ i \in 1..Len(invocations)
    /\ invocations[i].status = "running"
    /\ invocations' = [invocations EXCEPT ![i].status = status]
    /\ resolveCalls' = [resolveCalls EXCEPT ![invocations[i].call].promise = promise]
    /\ lastCall' = outcome
    /\ fired' = << >>
    /\ notified' = << >>
    /\ UNCHANGED <<viewProviders, webviewViews, views, webviews, disposables, sent>>

\* provider.resolveWebviewView(...) completes: $resolveWebviewView fulfils.
ProviderReturns(i) ==
    Settle(i, "returned", "fulfilled",
           Returned("await provider.resolveWebviewView", <<i>>, Undefined))

\* Mutant: $resolveWebviewView catching the provider's error to take the
\* wrapper out of the map and dispose it before rethrowing.
ProviderThrows_CleansUp(i) ==
    /\ i \in 1..Len(invocations)
    /\ invocations[i].status = "running"
    /\ invocations' = [invocations EXCEPT ![i].status = "threw"]
    /\ resolveCalls' = [resolveCalls EXCEPT ![invocations[i].call].promise = "rejected"]
    /\ lastCall' = Threw("await provider.resolveWebviewView", <<i>>, ProviderError)
    /\ LET r == dispose(views, invocations[i].webviewView)
       IN /\ views' = r.views
          /\ fired' = r.fired
          /\ notified' = ListenersObserve(r.notified, webviewViews, r.views)
    /\ webviewViews' = MapDelete(webviewViews, views[invocations[i].webviewView].handle)
    /\ UNCHANGED <<viewProviders, webviews, disposables, sent>>

\* provider.resolveWebviewView(...) throws or rejects: $resolveWebviewView
\* rejects with the provider's error.
ProviderThrows(i) ==
    Settle(i, "threw", "rejected",
           Threw("await provider.resolveWebviewView", <<i>>, ProviderError))

\* Mutant: $onDidChangeWebviewViewVisibility ignoring an unknown handle
\* (this._webviewViews.get(handle)?._setVisible(visible)).
RpcOnDidChangeWebviewViewVisibility_Lenient(webviewHandle, visible) ==
    LET r == IF MapHas(webviewViews, webviewHandle)
             THEN setVisible(views, webviewViews[webviewHandle], visible)
             ELSE [views |-> views, fired |-> << >>, notified |-> << >>]
    IN /\ views' = r.views
       /\ fired' = r.fired
       /\ notified' = ListenersObserve(r.notified, webviewViews, r.views)
       /\ lastCall' = Returned("$onDidChangeWebviewViewVisibility",
                               <<webviewHandle, visible>>, Undefined)
       /\ UNCHANGED <<viewProviders, webviewViews, webviews, disposables, sent,
                      resolveCalls, invocations>>

\* $onDidChangeWebviewViewVisibility(webviewHandle, visible)
RpcOnDidChangeWebviewViewVisibility(webviewHandle, visible) ==
    LET webviewView == getWebviewView(webviewHandle) IN
    IF webviewView = 0
    THEN /\ lastCall' = Threw("$onDidChangeWebviewViewVisibility",
                              <<webviewHandle, visible>>, NoWebviewFound)
         /\ fired' = << >>
         /\ notified' = << >>
         /\ UNCHANGED <<viewProviders, webviewViews, views, webviews, disposables,
                        sent, resolveCalls, invocations>>
    ELSE LET r == setVisible(views, webviewView, visible)
         IN /\ views' = r.views
            /\ fired' = r.fired
            /\ notified' = ListenersObserve(r.notified, webviewViews, r.views)
            /\ lastCall' = Returned("$onDidChangeWebviewViewVisibility",
                                    <<webviewHandle, visible>>, Undefined)
            /\ UNCHANGED <<viewProviders, webviewViews, webviews, disposables, sent,
                           resolveCalls, invocations>>

\* Mutant: $disposeWebviewView disposing the wrapper before it deletes the
\* handle, so that onDidDispose listeners run with the handle still in the map.
RpcDisposeWebviewView_DisposeFirst(webviewHandle) ==
    LET webviewView == getWebviewView(webviewHandle) IN
    IF webviewView = 0
    THEN /\ lastCall' = Threw("$disposeWebviewView", <<webviewHandle>>, NoWebviewFound)
         /\ fired' = << >>
         /\ notified' = << >>
         /\ UNCHANGED <<viewProviders, webviewViews, views, webviews, disposables,
                        sent, resolveCalls, invocations>>
    ELSE LET r == dispose(views, webviewView)
         IN /\ views' = r.views
            /\ fired' = r.fired
            /\ notified' = ListenersObserve(r.notified, webviewViews, r.views)
            /\ webviewViews' = MapDelete(webviewViews, webviewHandle)
            /\ lastCall' = Returned("$disposeWebviewView", <<webviewHandle>>, Undefined)
            /\ UNCHANGED <<viewProviders, webviews, disposables, sent,
                           resolveCalls, invocations>>

\* $disposeWebviewView(webviewHandle): the handle is deleted first, and the
\* listeners of onDidDispose run with the map as it is then.
RpcDisposeWebviewView(webviewHandle) ==
    LET webviewView == getWebviewView(webviewHandle) IN
    IF webviewView = 0
    THEN /\ lastCall' = Threw("$disposeWebviewView", <<webviewHandle>>, NoWebviewFound)
         /\ fired' = << >>
         /\ notified' = << >>
         /\ UNCHANGED <<viewProviders, webviewViews, views, webviews, disposables,
                        sent, resolveCalls, invocations>>
    ELSE LET r == dispose(views, webviewView)
         IN /\ webviewViews' = MapDelete(webviewViews, webviewHandle)
            /\ views' = r.views
            /\ fired' = r.fired
            /\ notified' = ListenersObserve(r.notified,
                                            MapDelete(webviewViews, webviewHandle),
                                            r.views)
            /\ lastCall' = Returned("$disposeWebviewView", <<webviewHandle>>, Undefined)
            /\ UNCHANGED <<viewProviders, webviews, disposables, sent,
                           resolveCalls, invocations>>

\* webviewView.dispose(), called on the wrapper by the extension
ViewDispose(w) ==
    /\ w \in 1..Len(views)
    /\ LET r == dispose(views, w)
       IN /\ views' = r.views
          /\ fired' = r.fired
          /\ notified' = ListenersObserve(r.notified, webviewViews, r.views)
    /\ lastCall' = Returned("dispose", <<w>>, Undefined)
    /\ UNCHANGED <<viewProviders, webviewViews, webviews, disposables, sent,
                   resolveCalls, invocations>>

\* get title()
getTitle(w) ==
    /\ w \in 1..Len(views)
    /\ lastCall' = IF assertNotDisposed(views, w)
                   THEN Threw("get title", <<w>>, WebviewIsDisposed)
                   ELSE Returned("get title", <<w>>, views[w].title)
    /\ fired' = << >>
    /\ notified' = << >>
    /\ UNCHANGED <<viewProviders, webviewViews, views, webviews, disposables, sent,
                   resolveCalls, invocations>>

\* Mutant: the title setter without its comparison with the stored title.
setTitle_AlwaysSend(w, value) ==
    /\ w \in 1..Len(views)
    /\ IF assertNotDisposed(views, w)
       THEN /\ lastCall' = Threw("set title", <<w, value>>, WebviewIsDisposed)
            /\ UNCHANGED <<views, sent>>
       ELSE /\ views' = [views EXCEPT ![w].title = value,
                                      ![w].titlesSent = Append(@, value)]
            /\ sent' = Append(sent, ProxySetWebviewViewTitle(views[w].handle, value))
            /\ lastCall' = Returned("set title", <<w, value>>, Undefined)
    /\ fired' = << >>
    /\ notified' = << >>
    /\ UNCHANGED <<viewProviders, webviewViews, webviews, disposables,
                   resolveCalls, invocations>>

\* set title(value)
setTitle(w, value) ==
    /\ w \in 1..Len(views)
    /\ IF assertNotDisposed(views, w)
       THEN /\ lastCall' = Threw("set title", <<w, value>>, WebviewIsDisposed)
            /\ UNCHANGED <<views, sent>>
       ELSE /\ IF views[w].title # value
               THEN /\ views' = [views EXCEPT ![w].title = value,
                                               ![w].titlesSent = Append(@, value)]
                    /\ sent' = Append(sent, ProxySetWebviewViewTitle(views[w].handle, value))
               ELSE UNCHANGED <<views, sent>>
            /\ lastCall' = Returned("set title", <<w, value>>, Undefined)
    /\ fired' = << >>
    /\ notified' = << >>
    /\ UNCHANGED <<viewProviders, webviewViews, webviews, disposables,
                   resolveCalls, invocations>>

\* ---------------------------------------------------------------- specification
Init ==
    /\ viewProviders = EmptyMap
    /\ webviewViews = EmptyMap
    /\ views = << >>
    /\ webviews = << >>
    /\ disposables = << >>
    /\ sent = << >>
    /\ resolveCalls = << >>
    /\ invocations = << >>
    /\ lastCall = Returned("constructor", << >>, Undefined)
    /\ fired = << >>
    /\ notified = << >>
    /\ nCalls = 0

\* Every call is counted, and a behaviour makes at most MaxCalls of them.
Tick ==
    /\ nCalls < MaxCalls
    /\ nCalls' = nCalls + 1

Next ==
    \/ \E r \in Registrants, vt \in ViewTypes, o \in WebviewOptions :
          Tick /\ registerWebviewViewProvider(r[1], vt, r[2], o)
    \/ \E d \in 1..Len(disposables) : Tick /\ DisposableDispose(d)
    \/ \E h \in Handles, vt \in ViewTypes, q \in Requests :
          Tick /\ RpcResolveWebviewView(h, vt, q[1], q[2])
    \/ \E i \in 1..Len(invocations) : Tick /\ ProviderReturns(i)
    \/ \E i \in 1..Len(invocations) : Tick /\ ProviderThrows(i)
    \/ \E h \in Handles, visible \in BOOLEAN :
          Tick /\ RpcOnDidChangeWebviewViewVisibility(h, visible)
    \/ \E h \in Handles : Tick /\ RpcDisposeWebviewView(h)
    \/ \E w \in 1..Len(views) : Tick /\ ViewDispose(w)
    \/ \E w \in 1..Len(views) : Tick /\ getTitle(w)
    \/ \E w \in 1..Len(views), value \in Titles : Tick /\ setTitle(w, value)

Spec == Init /\ [][Next]_vars

\* ---------------------------------------------------------------- properties
\* The step just taken is a call of op.
Called(op) == nCalls' = nCalls + 1 /\ lastCall'.op = op

\* The registrations of viewType whose disposable has not run its callback.
LiveRegistrations(viewType) ==
    {d \in 1..Len(disposables) :
        disposables[d].viewType = viewType /\ disposables[d].callOnDispose}

\* C1, state part: every view-type has at most one registration in effect,
\* and it has an entry in the provider map exactly when it has one.
C1_OneRegistration ==
    \A vt \in ViewTypes :
        /\ Cardinality(LiveRegistrations(vt)) <= 1
        /\ MapHas(viewProviders, vt) <=> LiveRegistrations(vt) # {}

\* C1, step part: registerWebviewViewProvider for a view-type that is
\* registered throws "View provider for '<viewType>' already registered",
\* keeps the provider map as it was and sends nothing to the main thread.
C1_RejectedStep ==
    (Called("registerWebviewViewProvider") /\ MapHas(viewProviders, lastCall'.args[2]))
        => /\ lastCall'.thrown = AlreadyRegistered(lastCall'.args[2])
           /\ viewProviders' = viewProviders
           /\ disposables' = disposables
           /\ sent' = sent

\* C1: at most one provider per view-type: each view-type has at most one
\* registered (provider, extension) entry, and registering a view-type that
\* is currently registered throws, keeps the previous provider and sends no
\* $registerWebviewViewProvider message.
C1_AtMostOneProviderPerViewType ==
    /\ []C1_OneRegistration
    /\ [][C1_RejectedStep]_vars

\* C1 witness: a registration was just rejected, and the entry of its
\* view-type is still the provider registered before, not the one offered.
C1_Witness ==
    /\ lastCall.op = "registerWebviewViewProvider"
    /\ lastCall.thrown = AlreadyRegistered(lastCall.args[2])
    /\ MapHas(viewProviders, lastCall.args[2])
    /\ viewProviders[lastCall.args[2]].provider # lastCall.args[3]

\* The views created for handle h that have not been disposed.
LiveViews(h) == {w \in 1..Len(views) : views[w].handle = h /\ ~views[w].isDisposed}

\* C2: a handle maps to at most one live view wrapper: for every handle
\* there is at most one wrapper created for that handle that has not been
\* disposed, also when $resolveWebviewView is called twice with the same
\* handle without a $disposeWebviewView in between.
C2_AtMostOneLiveViewPerHandle ==
    \A h \in Handles : Cardinality(LiveViews(h)) <= 1

\* C3: $resolveWebviewView for a view-type that has no registered provider
\* fails with "No view provider found for '<viewType>'", creates no webview
\* and no wrapper, leaves the handle-to-wrapper map unchanged and invokes no
\* provider.
C3_NotRegisteredGuard ==
    [][(Called("$resolveWebviewView") /\ ~MapHas(viewProviders, lastCall'.args[2]))
        => /\ lastCall'.thrown = NoViewProvider(lastCall'.args[2])
           /\ webviews' = webviews
           /\ views' = views
           /\ webviewViews' = webviewViews
           /\ invocations' = invocations
           /\ resolveCalls' = resolveCalls]_vars

\* C3 witness: $resolveWebviewView was just rejected for a view-type whose
\* registration had been disposed.
C3_Witness ==
    /\ lastCall.op = "$resolveWebviewView"
    /\ lastCall.thrown = NoViewProvider(lastCall.args[2])
    /\ \E d \in 1..Len(disposables) :
          /\ disposables[d].viewType = lastCall.args[2]
          /\ ~disposables[d].callOnDispose

\* C4, step part: on a disposed wrapper a read of title throws 'Webview is
\* disposed', and so does a write, which changes no view and sends nothing.
C4_DisposedStep ==
    /\ (Called("get title") /\ views[lastCall'.args[1]].isDisposed)
          => lastCall'.thrown = WebviewIsDisposed
    /\ (Called("set title") /\ views[lastCall'.args[1]].isDisposed)
          => /\ lastCall'.thrown = WebviewIsDisposed
             /\ views' = views
             /\ sent' = sent
    /\ \A w \in 1..Len(views) : views[w].isDisposed => views'[w].isDisposed

\* C4: once a view wrapper has been disposed it stays disposed, every read
\* and every write of title throws 'Webview is disposed', and a rejected
\* write leaves the stored title unchanged and sends no $setWebviewViewTitle.
C4_DisposedGuard == [][C4_DisposedStep]_vars

\* C4 witness: a write of a title other than the stored one was just
\* rejected on a disposed wrapper.
C4_Witness ==
    /\ lastCall.op = "set title"
    /\ lastCall.thrown = WebviewIsDisposed
    /\ views[lastCall.args[1]].isDisposed
    /\ views[lastCall.args[1]].title # lastCall.args[2]

\* What $disposeWebviewView(h) does to the map for a known handle.
C5_HandleRemoved ==
    (Called("$disposeWebviewView") /\ MapHas(webviewViews, lastCall'.args[1]))
        => /\ lastCall'.thrown = NoError
           /\ webviewViews' = MapDelete(webviewViews, lastCall'.args[1])
           /\ views'[webviewViews[lastCall'.args[1]]].isDisposed

\* C5 as stated: $disposeWebviewView for a known handle removes the handle
\* from the handle-to-wrapper map and fires the wrapper's onDidDispose event.
C5_DisposeAlwaysFires ==
    [][/\ C5_HandleRemoved
       /\ (Called("$disposeWebviewView") /\ MapHas(webviewViews, lastCall'.args[1]))
             => fired' = << Fire(webviewViews[lastCall'.args[1]], "onDidDispose") >>]_vars

\* C5, step part: $disposeWebviewView for a known handle removes the handle
\* and fires onDidDispose unless the wrapper was disposed before; dispose()
\* on a disposed wrapper changes nothing and fires nothing.
C5_Step ==
    /\ C5_HandleRemoved
    /\ (Called("$disposeWebviewView") /\ MapHas(webviewViews, lastCall'.args[1]))
          => LET w == webviewViews[lastCall'.args[1]]
             IN fired' = IF views[w].isDisposed
                         THEN << >>
                         ELSE << Fire(w, "onDidDispose") >>
    /\ (Called("dispose") /\ views[lastCall'.args[1]].isDisposed)
          => /\ fired' = << >>
             /\ UNCHANGED <<viewProviders, webviewViews, views, webviews, disposables,
                            sent, resolveCalls, invocations>>

\* C5, state part: onDidDispose has fired once on every disposed wrapper and
\* never on any other.
C5_FiredOnce ==
    \A w \in 1..Len(views) :
        views[w].nDidDispose = IF views[w].isDisposed THEN 1 ELSE 0

\* C5 (amended): disposal is relayed exactly once: $disposeWebviewView for a
\* known handle removes the handle and fires the wrapper's onDidDispose
\* unless a dispose() call on the wrapper has fired it already; onDidDispose
\* has fired once on every disposed wrapper and never on any other, and a
\* second dispose() is a no-op.
C5_DisposalRelayedOnce ==
    /\ []C5_FiredOnce
    /\ [][C5_Step]_vars

\* C5 witness: dispose() was just called on a wrapper that an earlier
\* $disposeWebviewView had disposed and removed, and nothing fired.
C5_Witness ==
    /\ lastCall.op = "dispose"
    /\ fired = << >>
    /\ views[lastCall.args[1]].nDidDispose = 1
    /\ ~MapHas(webviewViews, views[lastCall.args[1]].handle)

\* C6, step part: a new wrapper starts visible; $onDidChangeWebviewViewVisibility
\* (handle, v) for a known handle leaves the wrapper's visible equal to v and
\* fires onDidChangeVisibility once if v differs from the value before and
\* not at all otherwise; nothing else changes any wrapper's visible.
C6_Step ==
    /\ \A w \in (Len(views) + 1)..Len(views') : views'[w].isVisible
    /\ IF Called("$onDidChangeWebviewViewVisibility")
          /\ MapHas(webviewViews, lastCall'.args[1])
       THEN LET w == webviewViews[lastCall'.args[1]]
                v == lastCall'.args[2]
            IN /\ views'[w].isVisible = v
               /\ fired' = IF v # views[w].isVisible
                           THEN << Fire(w, "onDidChangeVisibility") >>
                           ELSE << >>
               /\ \A x \in 1..Len(views) :
                     x # w => views'[x].isVisible = views[x].isVisible
       ELSE /\ \A x \in 1..Len(views) : views'[x].isVisible = views[x].isVisible
            /\ \A i \in 1..Len(fired') : fired'[i].event # "onDidChangeVisibility"

\* C6: visibility is relayed on change only, and a wrapper's visible is the
\* value of the last visibility call made on it (true if there was none).
C6_VisibilityRelayedOnChange == [][C6_Step]_vars

\* C6 witness: a visibility call repeating the wrapper's value (false, set by
\* an earlier call) was just made, and nothing fired.
C6_Witness ==
    /\ lastCall.op = "$onDidChangeWebviewViewVisibility"
    /\ lastCall.thrown = NoError
    /\ lastCall.args[2] = FALSE
    /\ fired = << >>

\* The values of the $setWebviewViewTitle messages in log sent for handle h.
TitlesSentFor(log, h) ==
    LET msgs == SelectSeq(log, LAMBDA m : m.method = "$setWebviewViewTitle" /\ m.key = h)
    IN [i \in 1..Len(msgs) |-> msgs[i].value]

\* All $setWebviewViewTitle messages in log.
TitleMessages(log) == SelectSeq(log, LAMBDA m : m.method = "$setWebviewViewTitle")

NoEqualNeighbours(seq) == \A i \in 1..(Len(seq) - 1) : seq[i] # seq[i + 1]

LastOr(seq, default) == IF seq = << >> THEN default ELSE seq[Len(seq)]

\* C7 as stated: the titles sent for one handle never contain two equal
\* consecutive values, and the stored title equals the last value sent for
\* the handle (undefined if none was sent). Stated for the wrappers that are
\* not disposed, in the behaviours in which no handle was resolved again
\* while it was in the map (those in which C2 holds).
C7_PerHandle ==
    (\A w \in 1..Len(views) : ~views[w].replaced)
        => /\ \A h \in Handles : NoEqualNeighbours(TitlesSentFor(sent, h))
           /\ \A w \in 1..Len(views) :
                 ~views[w].isDisposed
                     => views[w].title
                           = LastOr(TitlesSentFor(sent, views[w].handle), Undefined)

\* C7, state part: the titles one wrapper has sent never contain two equal
\* consecutive values, and its stored title is the last value it sent
\* (undefined if it sent none).
C7_PerWrapper ==
    \A w \in 1..Len(views) :
        /\ NoEqualNeighbours(views[w].titlesSent)
        /\ views[w].title = LastOr(views[w].titlesSent, Undefined)

\* C7, step part: on a non-disposed wrapper a write of a value other than
\* the stored title stores it and sends one $setWebviewViewTitle(handle,
\* value) with the wrapper's own handle; a write of the stored value sends
\* nothing; no other call sends a title or changes one.
C7_Step ==
    IF Called("set title") /\ ~views[lastCall'.args[1]].isDisposed
    THEN LET w == lastCall'.args[1]
             value == lastCall'.args[2]
         IN IF value # views[w].title
            THEN /\ views'[w].title = value
                 /\ views'[w].titlesSent = Append(views[w].titlesSent, value)
                 /\ sent' = Append(sent, ProxySetWebviewViewTitle(views[w].handle, value))
                 /\ \A x \in 1..Len(views) : x # w => views'[x] = views[x]
            ELSE views' = views /\ sent' = sent
    ELSE /\ TitleMessages(sent') = TitleMessages(sent)
         /\ \A x \in 1..Len(views) :
               /\ views'[x].title = views[x].title
               /\ views'[x].titlesSent = views[x].titlesSent

\* C7 (amended): title changes are relayed on change only, per wrapper: the
\* titles sent by one wrapper never repeat a value consecutively and its
\* stored title is the last value it sent.
C7_TitleRelayedOnChange ==
    /\ []C7_PerWrapper
    /\ [][C7_Step]_vars

\* C7 witness: two wrappers resolved for the same handle have each sent the
\* same title once.
C7_Witness ==
    /\ lastCall.op = "set title"
    /\ lastCall.thrown = NoError
    /\ \E w1, w2 \in 1..Len(views) :
          /\ w1 # w2
          /\ views[w1].handle = views[w2].handle
          /\ views[w1].titlesSent = << "a" >>
          /\ views[w2].titlesSent = << "a" >>

\* C8, state part: every accepted $resolveWebviewView has exactly one
\* provider invocation, made with the wrapper created for its handle and
\* view-type, { state } and its own token; its promise is pending while the
\* callback runs, fulfilled once it returned and rejected once it threw.
C8_OneInvocationPerCall ==
    /\ Len(invocations) = Len(resolveCalls)
    /\ \A c \in 1..Len(resolveCalls) :
          LET call == resolveCalls[c]
              inv == invocations[c]
          IN /\ {i \in 1..Len(invocations) : invocations[i].call = c} = {c}
             /\ inv.webviewView = call.webviewView
             /\ views[inv.webviewView].handle = call.webviewHandle
             /\ views[inv.webviewView].viewType = call.viewType
             /\ inv.context = [state |-> call.state]
             /\ inv.token = call.cancellation
             /\ call.promise = "pending" <=> inv.status = "running"
             /\ call.promise = "fulfilled" <=> inv.status = "returned"
             /\ call.promise = "rejected" <=> inv.status = "threw"

\* C8, step part: an accepted $resolveWebviewView calls the provider
\* registered for the view-type with the wrapper it has just created; no
\* other step calls a provider or changes the arguments of a call made.
C8_Step ==
    IF Called("$resolveWebviewView") /\ MapHas(viewProviders, lastCall'.args[2])
    THEN /\ lastCall'.thrown = NoError
         /\ Len(views') = Len(views) + 1
         /\ invocations' = Append(invocations,
               [call |-> Len(resolveCalls) + 1,
                provider |-> viewProviders[lastCall'.args[2]].provider,
                webviewView |-> Len(views'),
                context |-> [state |-> lastCall'.args[3]],
                token |-> lastCall'.args[4],
                status |-> "running"])
    ELSE /\ Len(invocations') = Len(invocations)
         /\ \A i \in 1..Len(invocations) :
               /\ [invocations'[i] EXCEPT !.status = "-"]
                     = [invocations[i] EXCEPT !.status = "-"]
               /\ invocations[i].status # "running"
                     => invocations'[i].status = invocations[i].status

\* C8: a successful $resolveWebviewView invokes the registered provider
\* exactly once, with the wrapper just created, { state } and the token it
\* was given; it completes only after the provider's callback completes and
\* never cancels, retries or re-invokes the provider.
C8_ProviderInvokedOnce ==
    /\ []C8_OneInvocationPerCall
    /\ [][C8_Step]_vars

\* C8 witness: a $resolveWebviewView given token t2 has fulfilled after its
\* provider's callback returned.
C8_Witness ==
    \E c \in 1..Len(resolveCalls) :
        /\ resolveCalls[c].promise = "fulfilled"
        /\ resolveCalls[c].cancellation = "t2"
        /\ invocations[c].status = "returned"
        /\ invocations[c].token = "t2"

\* C9, step part: a visibility or dispose call for a handle that is not in
\* the map throws 'No webview found' and changes nothing; a dispose call for
\* a handle that is in the map takes it out.
C9_Step ==
    /\ ((Called("$onDidChangeWebviewViewVisibility") \/ Called("$disposeWebviewView"))
           /\ ~MapHas(webviewViews, lastCall'.args[1]))
          => /\ lastCall'.thrown = NoWebviewFound
             /\ fired' = << >>
             /\ notified' = << >>
             /\ views' = views
             /\ webviewViews' = webviewViews
             /\ viewProviders' = viewProviders
    /\ (Called("$disposeWebviewView") /\ MapHas(webviewViews, lastCall'.args[1]))
          => ~MapHas(webviewViews', lastCall'.args[1])

\* C9: $onDidChangeWebviewViewVisibility and $disposeWebviewView with a
\* handle that is not in the handle-to-wrapper map fail with 'No webview
\* found', fire no event and leave both maps unchanged; $disposeWebviewView
\* removes its handle, so a second one for the same handle fails.
C9_UnknownHandleGuard == [][C9_Step]_vars

\* C9 witness: a second $disposeWebviewView for a handle was just rejected.
C9_Witness ==
    /\ lastCall.op = "$disposeWebviewView"
    /\ lastCall.thrown = NoWebviewFound
    /\ \E w \in 1..Len(views) :
          views[w].handle = lastCall.args[1] /\ views[w].nDidDispose = 1

\* The number of method messages sent for viewType.
Count(method, viewType) ==
    Len(SelectSeq(sent, LAMBDA m : m.method = method /\ m.key = viewType))

\* C10, state part: a view-type in the provider map has one more
\* $registerWebviewViewProvider than $unregisterWebviewViewProvider messages
\* sent for it, any other view-type as many of the one as of the other.
C10_InStep ==
    \A vt \in ViewTypes :
        Count("$registerWebviewViewProvider", vt)
            - Count("$unregisterWebviewViewProvider", vt)
          = IF MapHas(viewProviders, vt) THEN 1 ELSE 0

\* C10, step part: registering a view-type that is not in the provider map
\* (never registered, or its registration disposed) succeeds and makes the
\* provider offered the entry.
C10_Step ==
    (Called("registerWebviewViewProvider") /\ ~MapHas(viewProviders, lastCall'.args[2]))
        => /\ lastCall'.thrown = NoError
           /\ MapHas(viewProviders', lastCall'.args[2])
           /\ viewProviders'[lastCall'.args[2]] =
                 [provider |-> lastCall'.args[3], extension |-> lastCall'.args[1]]

C11_UndisposedIsRegistered ==
    \A d \in 1..Len(disposables) :
        disposables[d].callOnDispose
        => /\ MapHas(viewProviders, disposables[d].viewType)
           /\ viewProviders[disposables[d].viewType] = disposables[d].installed

\* Disposing a disposable removes the entry of its own view-type the first
\* time, and nothing at all afterwards.
C11_Step ==
    Called("Disposable.dispose")
    => LET d == lastCall'.args[1]
       IN /\ viewProviders' = IF disposables[d].callOnDispose
                               THEN MapDelete(viewProviders, disposables[d].viewType)
                               ELSE viewProviders
          /\ ~disposables[d].callOnDispose => sent' = sent

PendingFor(handle) ==
    {w \in 1..Len(views) :
        /\ views[w].handle = handle
        /\ ~views[w].isDisposed
        /\ ~views[w].replaced
        /\ \E i \in 1..Len(invocations) :
              /\ invocations[i].webviewView = w
              /\ invocations[i].status = "running"}

\* While the provider runs, the wrapper is the entry of its handle.
C12_PendingIsPublished ==
    \A h \in Handles : \A w \in PendingFor(h) :
        MapHas(webviewViews, h) /\ webviewViews[h] = w

\* The provider is invoked with the wrapper already stored, and a visibility
\* or dispose message for a handle whose provider is pending is applied to
\* that wrapper.
C12_Step ==
    /\ Called("$resolveWebviewView") /\ lastCall'.thrown = NoError
       => /\ Len(invocations') = Len(invocations) + 1
          /\ invocations'[Len(invocations')].status = "running"
          /\ MapHas(webviewViews', lastCall'.args[1])
          /\ webviewViews'[lastCall'.args[1]]
                = invocations'[Len(invocations')].webviewView
    /\ Called("$onDidChangeWebviewViewVisibility")
       => \A w \in PendingFor(lastCall'.args[1]) :
             /\ lastCall'.thrown = NoError
             /\ views'[w].isVisible = lastCall'.args[2]
    /\ Called("$disposeWebviewView")
       => \A w \in PendingFor(lastCall'.args[1]) :
             /\ lastCall'.thrown = NoError
             /\ views'[w].isDisposed
             /\ fired' = << Fire(w, "onDidDispose") >>

\* C12: $resolveWebviewView stores the wrapper under its handle before it
\* calls the provider, so a visibility or dispose message for that handle
\* arriving while the provider's callback is pending finds the wrapper and
\* is applied to it instead of failing with 'No webview found'.
C12_PublishedBeforeProviderRuns ==
    []C12_PendingIsPublished /\ [][C12_Step]_vars

\* $disposeWebviewView disposed a wrapper whose provider callback is pending.
C12_Witness ==
    /\ lastCall.op = "$disposeWebviewView"
    /\ lastCall.thrown = NoError
    /\ \E i \in 1..Len(invocations) :
          /\ invocations[i].status = "running"
          /\ views[invocations[i].webviewView].handle = lastCall.args[1]
          /\ views[invocations[i].webviewView].isDisposed
          /\ fired = << Fire(invocations[i].webviewView, "onDidDispose") >>


\* ---------------------------------------------------------------- C13
\* A visibility event reaches listeners only from a wrapper whose
\* onDidDispose had not fired before the call.
C13_Step ==
    \A i \in 1..Len(notified') :
        notified'[i].event = "onDidChangeVisibility"
        => /\ notified'[i].view \in 1..Len(views)
           /\ views[notified'[i].view].nDidDispose = 0

C14_UnregisterStep ==
    Called("Disposable.dispose")
    => /\ webviewViews' = webviewViews
       /\ views' = views
       /\ webviews' = webviews
       /\ fired' = << >>
       /\ notified' = << >>

\* A resolved view accepts visibility changes, title writes and
\* $disposeWebviewView whether or not its view-type is still registered.
C14_ViewStep ==
    /\ Called("$onDidChangeWebviewViewVisibility") /\ MapHas(webviewViews, lastCall'.args[1])
       => /\ lastCall'.thrown = NoError
          /\ views'[webviewViews[lastCall'.args[1]]].isVisible = lastCall'.args[2]
    /\ Called("$disposeWebviewView") /\ MapHas(webviewViews, lastCall'.args[1])
       => /\ lastCall'.thrown = NoError
          /\ views'[webviewViews[lastCall'.args[1]]].isDisposed
          /\ ~MapHas(webviewViews', lastCall'.args[1])
    /\ Called("set title") /\ ~views[lastCall'.args[1]].isDisposed
       => /\ lastCall'.thrown = NoError
          /\ views'[lastCall'.args[1]].title = lastCall'.args[2]

\* The messages about views leave the registrations alone.
C14_MessageStep ==
    Called("$disposeWebviewView") \/ Called("$onDidChangeWebviewViewVisibility")
    => /\ viewProviders' = viewProviders
       /\ disposables' = disposables

\* C14: disposing a registration's disposable leaves the handle-to-wrapper
\* map unchanged, disposes no wrapper and fires no onDidDispose; the views
\* that provider resolved keep accepting visibility changes, title writes
\* and $disposeWebviewView afterwards. Symmetrically, $disposeWebviewView and
\* $onDidChangeWebviewViewVisibility leave the provider map unchanged.
C14_UnregisterLeavesViews ==
    [][C14_UnregisterStep /\ C14_ViewStep /\ C14_MessageStep]_vars

\* A title was written, and sent, on a view whose view-type is no longer
\* registered.
C14_Witness ==
    /\ lastCall.op = "set title"
    /\ lastCall.thrown = NoError
    /\ ~MapHas(viewProviders, views[lastCall.args[1]].viewType)
    /\ MapHas(webviewViews, views[lastCall.args[1]].handle)
    /\ webviewViews[views[lastCall.args[1]].handle] = lastCall.args[1]
    /\ views[lastCall.args[1]].title = lastCall.args[2]
    /\ Len(sent) > 0
    /\ sent[Len(sent)] = ProxySetWebviewViewTitle(views[lastCall.args[1]].handle,
                                                  lastCall.args[2])


\* ---------------------------------------------------------------- C15
\* When the provider's callback fails, $resolveWebviewView rejects with the
\* provider's error and touches neither the map nor the wrapper.
C15_Step ==
    Called("await provider.resolveWebviewView") /\ lastCall'.thrown # NoError
    => LET i == lastCall'.args[1]
       IN /\ lastCall'.thrown = ProviderError
          /\ invocations'[i].status = "threw"
          /\ resolveCalls'[invocations[i].call].promise = "rejected"
          /\ webviewViews' = webviewViews
          /\ views' = views
          /\ fired' = << >>

\* A wrapper leaves the map only when $disposeWebviewView disposes it or a
\* later $resolveWebviewView overwrites it: one that is neither disposed nor
\* overwritten is the entry of its handle.
C15_StaysInMap ==
    \A w \in 1..Len(views) :
        ~views[w].isDisposed /\ ~views[w].replaced
        => /\ MapHas(webviewViews, views[w].handle)
           /\ webviewViews[views[w].handle] = w

\* Only $disposeWebviewView takes a handle out of the map.
C15_RemovalStep ==
    \A h \in DOMAIN webviewViews :
        ~MapHas(webviewViews', h)
        => Called("$disposeWebviewView") /\ lastCall'.args[1] = h

C16_Step ==
    Called("$disposeWebviewView")
    => \A i \in 1..Len(notified') :
          notified'[i].event = "onDidDispose"
          => /\ views[notified'[i].view].handle = lastCall'.args[1]
             /\ notified'[i].lookup = NoWebviewFound
             /\ notified'[i].title = WebviewIsDisposed

\* C16: $disposeWebviewView removes the handle from the map before the
\* wrapper's onDidDispose listeners run, so a listener that re-enters
\* ($onDidChangeWebviewViewVisibility or $disposeWebviewView for the same
\* handle, or a title read or write on the wrapper) finds the handle already
\* gone ('No webview found') and the wrapper already disposed ('Webview is
\* disposed').
C16_HandleGoneBeforeListenersRun == [][C16_Step]_vars

\* $disposeWebviewView notified the onDidDispose listeners of a wrapper, and
\* they found the handle gone and the wrapper disposed.
C16_Witness ==
    /\ lastCall.op = "$disposeWebviewView"
    /\ lastCall.thrown = NoError
    /\ Len(notified) = 1
    /\ notified[1].event = "onDidDispose"
    /\ views[notified[1].view].handle = lastCall.args[1]
    /\ notified[1].lookup = NoWebviewFound
    /\ notified[1].title = WebviewIsDisposed

====
